---- MODULE Spec2Model ----
(***************************************************************************)
(* Model of the cooking assistant's session engine                         *)
(* (src/services/core/cooking_service.py) over the persisted tables        *)
(* cooking_sessions and base_recipes.                                      *)
(*                                                                         *)
(* The recommender, the pantry and the nutrition registry                  *)
(* (recipe_service.py, pantry_service.py, nutrition_service.py) are        *)
(* modelled over the tables pantry_items and nutrition_data.               *)
(*                                                                         *)
(* Python values are modelled as follows:                                  *)
(*   - an Optional[T] is a sequence: <<>> is None, <<v>> is the value v;   *)
(*   - a SQL result list is a sequence of rows (at most one row for a      *)
(*     lookup by primary key);                                             *)
(*   - money is counted in cents, so 8.50 is 850;                          *)
(*   - an exception raised by a handler is the "error" field of the        *)
(*     handler's result ("" when the handler returned normally), and       *)
(*     "synced" lists the rows the handler had written with sync() by      *)
(*     the time it returned or raised.                                     *)
(***************************************************************************)
EXTENDS Integers, Sequences, FiniteSets, TLC

VARIABLES
    recipes,     \* table base_recipes: recipe id -> row
    sessions,    \* table cooking_sessions: session id -> row
    bucket,      \* media bucket: the set of stored photo paths
    now,         \* the wall clock read by datetime.now()
    inflight,    \* request slot -> the request a worker is in the middle of
    accepted,    \* history: the recordDecision calls that returned normally
    last,        \* history: the handler call that finished last
    pantry,      \* table pantry_items: item id -> row
    nutrition,   \* table nutrition_data: the rows in the order they are stored
    call         \* history: the pantry, recipe or nutrition call that finished last

vars == <<recipes, sessions, bucket, now, inflight, accepted, last, pantry, nutrition, call>>

----------------------------------------------------------------------------
(* Bounds of the model *)

MaxSessions == 1
MaxClock == 3
MaxPhotos == 1
MaxRequests == 1      \* requests each worker serves in the two-worker runs

SessionIds == 1..MaxSessions
Workers == {1, 2}
None == <<>>
Some(v) == <<v>>

----------------------------------------------------------------------------
(* The catalog: the pasta recipe of sample_data.py, shortened to two       *)
(* ingredients and four steps, with its branch points at steps 3 and 4     *)
(* and its texts abbreviated.                                              *)

PastaRecipe ==
    [ id |-> 1,
      name |-> "Pasta Adventure",
      prep_time_minutes |-> 15,
      cook_time_minutes |-> 20,
      base_ingredients |->
        << [name |-> "pasta", quantity |-> 12, unit |-> "oz", required |-> TRUE],
           [name |-> "fresh basil", quantity |-> 1, unit |-> "cup", required |-> FALSE] >>,
      base_steps |->
        << [step |-> 1, instruction |-> "Boil water", time_minutes |-> 5],
           [step |-> 2, instruction |-> "Heat olive oil", time_minutes |-> 2],
           [step |-> 3, instruction |-> "Add garlic", time_minutes |-> 1],
           [step |-> 4, instruction |-> "Add cherry tomatoes", time_minutes |-> 5] >>,
      branch_points |->
        << [step |-> 3, question |-> "Flavor your garlic?",
            options |-> <<"classic", "spicy", "herb">>],
           [step |-> 4, question |-> "Add protein?",
            options |-> <<"none", "chicken", "shrimp">>] >>,
      base_nutrition |-> [calories |-> 420, protein |-> 15, carbs |-> 65, fat |-> 12,
                          fiber |-> 4, sugar |-> 8, sodium |-> 380],
      base_cost_estimate |-> 850,
      dietary_tags |-> <<"vegetarian">>,
      created_at |-> 0 ]

\* the table base_recipes
Catalog == [i \in {PastaRecipe.id} |-> PastaRecipe]

RecipeIds == {1, 2}          \* recipe 2 is not in the catalog

----------------------------------------------------------------------------
(* Inputs of the handlers *)

UserIds == {"u1"}
BranchInputs == {4, 9}       \* 9 is the step of no branch point
ChoiceInputs == {"spicy", "tofu"}   \* "tofu" is an option of no branch point
StepInputs == {3, 7}
PhotoStepInputs == {3}
QuestionInputs == {"Can I use butter?"}

(* What the generation service can answer to a recompose request: a        *)
(* well-formed recipe update, or a failure of the call (the client raises, *)
(* or the content is not JSON and json.loads raises). The label is not     *)
(* part of the answer: it names the outcome in the history.                *)
RecomposeOutcomes ==
    { [ kind |-> "ok", label |-> "spicy pasta",
        ingredients |-> << [name |-> "pasta", quantity |-> 12, unit |-> "oz", required |-> TRUE],
                           [name |-> "red pepper flakes", quantity |-> 1, unit |-> "tsp", required |-> TRUE] >>,
        steps |-> << [step |-> 1, instruction |-> "Boil the pasta", time_minutes |-> 8],
                     [step |-> 2, instruction |-> "Add garlic and pepper flakes", time_minutes |-> 2] >>,
        nutrition |-> [calories |-> 430, protein |-> 15, carbs |-> 66, fat |-> 12,
                       fiber |-> 4, sugar |-> 8, sodium |-> 390],
        cost |-> 900,
        total_time |-> 40 ],
      [ kind |-> "ok", label |-> "chicken",
        ingredients |-> << [name |-> "chicken", quantity |-> 1, unit |-> "lb", required |-> TRUE] >>,
        steps |-> << [step |-> 1, instruction |-> "Grill the chicken", time_minutes |-> 12] >>,
        nutrition |-> [calories |-> 610, protein |-> 48, carbs |-> 65, fat |-> 17,
                       fiber |-> 4, sugar |-> 8, sodium |-> 450],
        cost |-> 1400,
        total_time |-> 50 ],
      [ kind |-> "error", label |-> "error" ] }

(* Answers that parse as JSON but do not have the declared shape: one      *)
(* lacks total_time, one carries the cost as a text.                       *)
MalformedOutcomes ==
    { [ kind |-> "ok", label |-> "no total_time",
        ingredients |-> << [name |-> "chicken", quantity |-> 1, unit |-> "lb", required |-> TRUE] >>,
        steps |-> << [step |-> 1, instruction |-> "Grill the chicken", time_minutes |-> 12] >>,
        nutrition |-> [calories |-> 610, protein |-> 48, carbs |-> 65, fat |-> 17,
                       fiber |-> 4, sugar |-> 8, sodium |-> 450],
        cost |-> 1400 ],
      [ kind |-> "ok", label |-> "cost as text",
        ingredients |-> << [name |-> "chicken", quantity |-> 1, unit |-> "lb", required |-> TRUE] >>,
        steps |-> << [step |-> 1, instruction |-> "Grill the chicken", time_minutes |-> 12] >>,
        nutrition |-> [calories |-> 610, protein |-> 48, carbs |-> 65, fat |-> 17,
                       fiber |-> 4, sugar |-> 8, sodium |-> 450],
        cost |-> "cheap",
        total_time |-> 50 ] }

\* the keys make_cooking_decision reads from updated_recipe
UpdateKeys == {"ingredients", "steps", "nutrition", "cost", "total_time"}

\* the outcome a history entry names by its label
Recomposed(label) == CHOOSE o \in RecomposeOutcomes : o.label = label

VoiceOutcomes ==
    { [kind |-> "ok", answer |-> "Yes, butter works", creates_branch |-> TRUE,
       suggested_modification |-> Some("swap olive oil for butter")],
      [kind |-> "error"] }

StoryOutcomes == { [kind |-> "ok", story |-> "A fine evening"], [kind |-> "error"] }

----------------------------------------------------------------------------
(* The persistence collaborator *)

\* Table.sql("SELECT * FROM t WHERE id = ..."): the list of matching rows
SelectById(table, id) == IF id \in DOMAIN table THEN <<table[id]>> ELSE <<>>

\* row.sync(): upsert of the whole row under its primary key
Sync(table, row) ==
    [i \in DOMAIN table \cup {row.id} |-> IF i = row.id THEN row ELSE table[i]]

RECURSIVE SyncAll(_, _)
SyncAll(table, rows) ==
    IF rows = <<>> THEN table ELSE SyncAll(Sync(table, Head(rows)), Tail(rows))

\* a handler that raised: nothing is returned
Raise(error, synced, adapter_called) ==
    [error |-> error, synced |-> synced, adapter_called |-> adapter_called, ret |-> None]

Return(ret, synced, adapter_called) ==
    [error |-> "", synced |-> synced, adapter_called |-> adapter_called, ret |-> Some(ret)]

----------------------------------------------------------------------------
(* start_cooking_session *)

\* faulty variant of NewSession: the preparation time is left out
NewSessionCookTimeOnly(recipe, user_id, base_recipe_id, id, ts) ==
    [ id |-> id,
      user_id |-> user_id,
      base_recipe_id |-> base_recipe_id,
      status |-> "in_progress",
      started_at |-> ts,
      completed_at |-> None,
      decisions_made |-> <<>>,
      current_step |-> 1,
      final_ingredients |-> recipe.base_ingredients,
      final_steps |-> recipe.base_steps,
      final_nutrition |-> recipe.base_nutrition,
      final_cost |-> recipe.base_cost_estimate,
      total_time_minutes |-> recipe.cook_time_minutes,
      session_photos |-> <<>>,
      voice_interactions |-> <<>>,
      notes |-> None,
      shared |-> FALSE,
      share_url |-> None,
      rating |-> None,
      would_make_again |-> None ]

\* CookingSession(...) of start_cooking_session; the fields the constructor
\* call does not name take the defaults of the class
NewSession(recipe, user_id, base_recipe_id, id, ts) ==
    [ id |-> id,
      user_id |-> user_id,
      base_recipe_id |-> base_recipe_id,
      status |-> "in_progress",
      started_at |-> ts,
      completed_at |-> None,
      decisions_made |-> <<>>,
      current_step |-> 1,
      final_ingredients |-> recipe.base_ingredients,
      final_steps |-> recipe.base_steps,
      final_nutrition |-> recipe.base_nutrition,
      final_cost |-> recipe.base_cost_estimate,
      total_time_minutes |-> recipe.prep_time_minutes + recipe.cook_time_minutes,
      session_photos |-> <<>>,
      voice_interactions |-> <<>>,
      notes |-> None,
      shared |-> FALSE,
      share_url |-> None,
      rating |-> None,
      would_make_again |-> None ]

\* faulty variant of start_cooking_session: a missing recipe gives a
\* session with an empty derived state
start_without_recipe_check(recipe_results, user_id, base_recipe_id, id, ts) ==
    LET blank == [ base_ingredients |-> <<>>, base_steps |-> <<>>,
                   base_nutrition |-> [calories |-> 0], base_cost_estimate |-> 0,
                   prep_time_minutes |-> 0, cook_time_minutes |-> 0 ]
        recipe == IF recipe_results = <<>> THEN blank ELSE recipe_results[1]
        session == NewSession(recipe, user_id, base_recipe_id, id, ts)
    IN  Return(session, <<session>>, FALSE)

start_cooking_session(recipe_results, user_id, base_recipe_id, id, ts) ==
    IF recipe_results = <<>>
    THEN Raise("RecipeNotFound", <<>>, FALSE)
    ELSE LET session == NewSession(recipe_results[1], user_id, base_recipe_id, id, ts)
         IN Return(session, <<session>>, FALSE)

----------------------------------------------------------------------------
(* make_cooking_decision *)

\* faulty variant of FindBranch: the loop variable is used after the loop,
\* so a step that matches nothing yields the last branch point
FindBranchOrLast(branch_points, branch_point) ==
    LET hits == SelectSeq(branch_points, LAMBDA bp : bp.step = branch_point)
    IN  IF hits # <<>> THEN Some(Head(hits))
        ELSE IF branch_points = <<>> THEN None
        ELSE Some(branch_points[Len(branch_points)])

\* the loop over recipe.branch_points: the first branch point of that step
RECURSIVE FindBranch(_, _)
FindBranch(branch_points, branch_point) ==
    IF branch_points = <<>> THEN None
    ELSE IF Head(branch_points).step = branch_point THEN Some(Head(branch_points))
    ELSE FindBranch(Tail(branch_points), branch_point)

\* faulty variants of RecordDecision: insert(0, decision), and
\* decisions_made = [decision]
RecordDecisionAtFront(session, decision) ==
    [session EXCEPT !.decisions_made = <<decision>> \o @]

RecordDecisionOverwriting(session, decision) ==
    [session EXCEPT !.decisions_made = <<decision>>]

\* session.decisions_made.append(decision)
RecordDecision(session, decision) ==
    [session EXCEPT !.decisions_made = Append(@, decision)]

\* faulty variant of SyncedOnRecomposeError: the decision is saved before
\* the generation service is called
SyncedBeforeRecompose(session) == <<session>>

\* the rows written when recompose_recipe_with_decision raises: the
\* exception leaves make_cooking_decision before session.sync()
SyncedOnRecomposeError(session) == <<>>

\* faulty variant of ApplyUpdate: the new ingredients are added to the old
\* ones (extend instead of assignment)
ApplyUpdateMerging(session, updated_recipe) ==
    [session EXCEPT !.final_ingredients = @ \o updated_recipe.ingredients,
                    !.final_steps = updated_recipe.steps,
                    !.final_nutrition = updated_recipe.nutrition,
                    !.final_cost = updated_recipe.cost,
                    !.total_time_minutes = updated_recipe.total_time]

\* the five assignments from updated_recipe
ApplyUpdate(session, updated_recipe) ==
    [session EXCEPT !.final_ingredients = updated_recipe.ingredients,
                    !.final_steps = updated_recipe.steps,
                    !.final_nutrition = updated_recipe.nutrition,
                    !.final_cost = updated_recipe.cost,
                    !.total_time_minutes = updated_recipe.total_time]

\* faulty variant of get_upcoming_branch_points: only the branch points
\* strictly after the step
get_upcoming_after(recipe, current_step) ==
    SelectSeq(recipe.branch_points, LAMBDA bp : bp.step > current_step)

get_upcoming_branch_points(recipe, current_step) ==
    SelectSeq(recipe.branch_points, LAMBDA bp : bp.step >= current_step)

\* faulty variant of make_cooking_decision: a choice that is not among
\* the options of the branch point is refused
make_decision_among_options(session_results, recipe_table, branch_point, choice, outcome, ts) ==
    IF session_results = <<>>
    THEN Raise("SessionNotFound", <<>>, FALSE)
    ELSE
    LET session == session_results[1]
        recipe_results == SelectById(recipe_table, session.base_recipe_id)
    IN  IF recipe_results = <<>>
        THEN Raise("IndexError", <<>>, FALSE)
        ELSE
        LET recipe == recipe_results[1]
            branch_info == FindBranch(recipe.branch_points, branch_point)
        IN  IF branch_info = None
            THEN Raise("BranchNotFound", <<>>, FALSE)
            ELSE IF \A i \in 1..Len(branch_info[1].options) : branch_info[1].options[i] # choice
            THEN Raise("InvalidChoice", <<>>, FALSE)
            ELSE
            LET decision == [branch_point |-> branch_point, choice |-> choice, timestamp |-> ts]
                session1 == RecordDecision(session, decision)
            IN  IF outcome.kind # "ok"
                THEN Raise("AdapterError", SyncedOnRecomposeError(session1), TRUE)
                ELSE IF ~(UpdateKeys \subseteq DOMAIN outcome)
                THEN Raise("KeyError", <<>>, TRUE)
                ELSE
                LET session2 == ApplyUpdate(session1, outcome)
                IN  Return([ session |-> session2,
                             updated_recipe |-> outcome,
                             next_branch_points |->
                                 get_upcoming_branch_points(recipe, session2.current_step + 1) ],
                           <<session2>>, TRUE)

make_cooking_decision(session_results, recipe_table, branch_point, choice, outcome, ts) ==
    IF session_results = <<>>
    THEN Raise("SessionNotFound", <<>>, FALSE)
    ELSE
    LET session == session_results[1]
        recipe_results == SelectById(recipe_table, session.base_recipe_id)
    IN  IF recipe_results = <<>>
        THEN Raise("IndexError", <<>>, FALSE)
        ELSE
        LET recipe == recipe_results[1]
            branch_info == FindBranch(recipe.branch_points, branch_point)
        IN  IF branch_info = None
            THEN Raise("BranchNotFound", <<>>, FALSE)
            ELSE
            LET decision == [branch_point |-> branch_point, choice |-> choice, timestamp |-> ts]
                session1 == RecordDecision(session, decision)
            IN  IF outcome.kind # "ok"
                THEN Raise("AdapterError", SyncedOnRecomposeError(session1), TRUE)
                ELSE IF ~(UpdateKeys \subseteq DOMAIN outcome)
                THEN Raise("KeyError", <<>>, TRUE)
                ELSE
                LET session2 == ApplyUpdate(session1, outcome)
                IN  Return([ session |-> session2,
                             updated_recipe |-> outcome,
                             next_branch_points |->
                                 get_upcoming_branch_points(recipe, session2.current_step + 1) ],
                           <<session2>>, TRUE)

----------------------------------------------------------------------------
(* process_voice_question, add_cooking_photo, update_current_step,         *)
(* complete_cooking_session                                                *)

\* faulty variant of process_voice_question: an answer that flags
\* creates_branch is also entered in the decision log
voice_question_branching(session_results, question, outcome, ts) ==
    IF session_results = <<>>
    THEN Raise("SessionNotFound", <<>>, FALSE)
    ELSE IF outcome.kind # "ok"
    THEN Raise("AdapterError", <<>>, TRUE)
    ELSE
    LET session == session_results[1]
        interaction == [timestamp |-> ts, question |-> question, response |-> outcome.answer]
        decision == [branch_point |-> session.current_step, choice |-> question, timestamp |-> ts]
        session1 == [session EXCEPT !.voice_interactions = Append(@, interaction),
                                    !.decisions_made =
                                        IF outcome.creates_branch THEN Append(@, decision) ELSE @]
    IN  Return([ answer |-> outcome.answer, creates_branch |-> outcome.creates_branch,
                 suggested_modification |-> outcome.suggested_modification ],
               <<session1>>, TRUE)

process_voice_question(session_results, question, outcome, ts) ==
    IF session_results = <<>>
    THEN Raise("SessionNotFound", <<>>, FALSE)
    ELSE IF outcome.kind # "ok"
    THEN Raise("AdapterError", <<>>, TRUE)
    ELSE
    LET session == session_results[1]
        interaction == [timestamp |-> ts, question |-> question, response |-> outcome.answer]
        session1 == [session EXCEPT !.voice_interactions = Append(@, interaction)]
    IN  Return([ answer |-> outcome.answer, creates_branch |-> outcome.creates_branch,
                 suggested_modification |-> outcome.suggested_modification ],
               <<session1>>, TRUE)

\* photo_path is what save_to_bucket returned; it has run before the lookup
add_cooking_photo(session_results, photo_path) ==
    IF session_results = <<>>
    THEN Raise("SessionNotFound", <<>>, FALSE)
    ELSE
    LET session == session_results[1]
        session1 == [session EXCEPT !.session_photos = Append(@, photo_path)]
    IN  Return(<<"presigned", photo_path>>, <<session1>>, FALSE)

update_current_step(session_results, step_number) ==
    IF session_results = <<>>
    THEN Raise("SessionNotFound", <<>>, FALSE)
    ELSE
    LET session1 == [session_results[1] EXCEPT !.current_step = step_number]
    IN  Return(session1, <<session1>>, FALSE)

\* generate_cooking_story, which runs after session.sync()
generate_cooking_story(session, outcome) ==
    [ title |-> <<"Cooking Adventure #", session.id>>,
      story |-> outcome.story,
      decisions_count |-> Len(session.decisions_made),
      photos_count |-> Len(session.session_photos),
      cooking_time |-> session.total_time_minutes ]

\* faulty variant of complete_cooking_session: the story is generated
\* before session.sync()
complete_after_story(session_results, rating, notes, would_make_again, outcome, ts) ==
    IF session_results = <<>>
    THEN Raise("SessionNotFound", <<>>, FALSE)
    ELSE
    LET session1 == [session_results[1] EXCEPT !.status = "completed",
                                               !.completed_at = Some(ts),
                                               !.rating = rating,
                                               !.notes = notes,
                                               !.would_make_again = would_make_again]
    IN  IF outcome.kind # "ok"
        THEN Raise("AdapterError", <<>>, TRUE)
        ELSE Return([session |-> session1, story |-> generate_cooking_story(session1, outcome)],
                    <<session1>>, TRUE)

complete_cooking_session(session_results, rating, notes, would_make_again, outcome, ts) ==
    IF session_results = <<>>
    THEN Raise("SessionNotFound", <<>>, FALSE)
    ELSE
    LET session1 == [session_results[1] EXCEPT !.status = "completed",
                                               !.completed_at = Some(ts),
                                               !.rating = rating,
                                               !.notes = notes,
                                               !.would_make_again = would_make_again]
    IN  IF outcome.kind # "ok"
        THEN Raise("AdapterError", <<session1>>, TRUE)
        ELSE Return([session |-> session1, story |-> generate_cooking_story(session1, outcome)],
                    <<session1>>, TRUE)

----------------------------------------------------------------------------
(* The state machine: one action per handler, the handler run from its     *)
(* SELECT to its return in one step (requests served one after another).   *)

IdleAfter(n) == [op |-> "idle", served |-> n]

Init ==
    /\ recipes = Catalog
    /\ sessions = << >>
    /\ bucket = {}
    /\ now = 1
    /\ inflight = [w \in Workers |-> IdleAfter(0)]
    /\ accepted = << >>
    /\ last = [op |-> "init", session_id |-> 0, args |-> << >>, before |-> << >>,
               overwritten |-> << >>, error |-> "", adapter_called |-> FALSE]
    /\ pantry = << >>
    /\ nutrition = << >>
    /\ call = [op |-> "init", args |-> << >>, before |-> << >>, ret |-> << >>]

\* uuid4(): an id no row has yet (ids are handed out in increasing order)
FreshIds == {i \in 1..MaxSessions : i = Cardinality(DOMAIN sessions) + 1}

\* the effect of a handler call that loaded `before` and ended with result r;
\* `overwritten` is the row its writes replaced
Finish(op, session_id, args, before, r, ticks) ==
    /\ sessions' = SyncAll(sessions, r.synced)
    /\ now' = now + ticks
    /\ accepted' = IF op = "make_cooking_decision" /\ r.error = ""
                   THEN Append(accepted, [session_id |-> session_id,
                                          branch_point |-> args.branch_point,
                                          choice |-> args.choice])
                   ELSE accepted
    /\ last' = [op |-> op, session_id |-> session_id, args |-> args, before |-> before,
                overwritten |-> SelectById(sessions, session_id),
                error |-> r.error, adapter_called |-> r.adapter_called]

\* datetime.now() is read once the handler reaches the line that calls it
DecisionTicks(r) == IF r.adapter_called THEN 1 ELSE 0
VoiceTicks(r) == IF r.error = "" THEN 1 ELSE 0
CompleteTicks(r) == IF r.synced # <<>> THEN 1 ELSE 0

StartCookingSession(user_id, base_recipe_id, id) ==
    /\ now <= MaxClock
    /\ LET r == start_cooking_session(SelectById(recipes, base_recipe_id),
                                      user_id, base_recipe_id, id, now)
       IN Finish("start_cooking_session", id,
                 [user_id |-> user_id, base_recipe_id |-> base_recipe_id],
                 << >>, r, IF r.error = "" THEN 1 ELSE 0)
    /\ UNCHANGED <<recipes, bucket, inflight, pantry, nutrition, call>>

\* faulty variant of MakeCookingDecision: the recomposed ingredients and
\* steps are also written to the base recipe
MakeCookingDecisionSavingRecipe(session_id, branch_point, choice, outcome) ==
    /\ now <= MaxClock
    /\ LET before == SelectById(sessions, session_id)
           r == make_cooking_decision(before, recipes, branch_point, choice, outcome, now)
       IN /\ Finish("make_cooking_decision", session_id,
                    [branch_point |-> branch_point, choice |-> choice, outcome |-> outcome.label],
                    before, r, DecisionTicks(r))
          /\ recipes' = IF r.error = ""
                        THEN [recipes EXCEPT
                                ![before[1].base_recipe_id].base_ingredients = outcome.ingredients,
                                ![before[1].base_recipe_id].base_steps = outcome.steps]
                        ELSE recipes
    /\ UNCHANGED <<bucket, inflight, pantry, nutrition, call>>

MakeCookingDecision(session_id, branch_point, choice, outcome) ==
    /\ now <= MaxClock
    /\ LET before == SelectById(sessions, session_id)
           r == make_cooking_decision(before, recipes, branch_point, choice, outcome, now)
       IN Finish("make_cooking_decision", session_id,
                 [branch_point |-> branch_point, choice |-> choice, outcome |-> outcome.label],
                 before, r, DecisionTicks(r))
    /\ UNCHANGED <<recipes, bucket, inflight, pantry, nutrition, call>>

ProcessVoiceQuestion(session_id, question, outcome) ==
    /\ now <= MaxClock
    /\ LET before == SelectById(sessions, session_id)
           r == process_voice_question(before, question, outcome, now)
       IN Finish("process_voice_question", session_id,
                 [question |-> question, outcome |-> outcome.kind], before, r, VoiceTicks(r))
    /\ UNCHANGED <<recipes, bucket, inflight, pantry, nutrition, call>>

\* save_to_bucket(photo): the photo is stored under a new path
NewPath == Cardinality(bucket) + 1

AddCookingPhoto(session_id, step_number) ==
    /\ Cardinality(bucket) < MaxPhotos
    /\ bucket' = bucket \cup {NewPath}
    /\ LET before == SelectById(sessions, session_id)
           r == add_cooking_photo(before, NewPath)
       IN Finish("add_cooking_photo", session_id,
                 [photo_path |-> NewPath, step_number |-> step_number], before, r, 0)
    /\ UNCHANGED <<recipes, inflight, pantry, nutrition, call>>

UpdateCurrentStep(session_id, step_number) ==
    /\ LET before == SelectById(sessions, session_id)
           r == update_current_step(before, step_number)
       IN Finish("update_current_step", session_id,
                 [step_number |-> step_number], before, r, 0)
    /\ UNCHANGED <<recipes, bucket, inflight, pantry, nutrition, call>>

CompleteCookingSession(session_id, rating, notes, would_make_again, outcome) ==
    /\ now <= MaxClock
    /\ LET before == SelectById(sessions, session_id)
           r == complete_cooking_session(before, rating, notes, would_make_again, outcome, now)
       IN Finish("complete_cooking_session", session_id,
                 [rating |-> rating, notes |-> notes, would_make_again |-> would_make_again,
                  outcome |-> outcome.kind], before, r, CompleteTicks(r))
    /\ UNCHANGED <<recipes, bucket, inflight, pantry, nutrition, call>>

\* the optional arguments of complete_cooking_session that are tried
CompletionInputs ==
    { <<None, None, None>>, <<Some(5), Some("great"), Some(TRUE)>> }

Next ==
    \/ \E u \in UserIds, rid \in RecipeIds, id \in FreshIds : StartCookingSession(u, rid, id)
    \/ \E sid \in SessionIds, bp \in BranchInputs, c \in ChoiceInputs, o \in RecomposeOutcomes :
          MakeCookingDecision(sid, bp, c, o)
    \/ \E sid \in SessionIds, q \in QuestionInputs, o \in VoiceOutcomes :
          ProcessVoiceQuestion(sid, q, o)
    \/ \E sid \in SessionIds, n \in PhotoStepInputs : AddCookingPhoto(sid, n)
    \/ \E sid \in SessionIds, n \in StepInputs : UpdateCurrentStep(sid, n)
    \/ \E sid \in SessionIds, ci \in CompletionInputs, o \in StoryOutcomes :
          CompleteCookingSession(sid, ci[1], ci[2], ci[3], o)

Spec == Init /\ [][Next]_vars

----------------------------------------------------------------------------
(* The same handlers served by two workers at once: a request is split at  *)
(* the point where it has read its session row (BeginRequest) and runs the *)
(* rest of the handler, the call of the generation service and sync()      *)
(* included, in a second step.                                             *)

Requests ==
    [op : {"make_cooking_decision"}, session_id : SessionIds,
     args : [branch_point : BranchInputs, choice : ChoiceInputs]]
    \cup [op : {"process_voice_question"}, session_id : SessionIds,
          args : [question : QuestionInputs]]
    \cup [op : {"add_cooking_photo"}, session_id : SessionIds,
          args : [step_number : PhotoStepInputs]]
    \cup [op : {"update_current_step"}, session_id : SessionIds,
          args : [step_number : StepInputs]]
    \cup [op : {"complete_cooking_session"}, session_id : SessionIds,
          args : [rating : {ci[1] : ci \in CompletionInputs},
                  notes : {ci[2] : ci \in CompletionInputs},
                  would_make_again : {ci[3] : ci \in CompletionInputs}]]

\* a worker takes a request and runs its handler up to the SELECT of the
\* session row; add_cooking_photo has stored the photo by then
BeginRequest(w, req) ==
    /\ inflight[w].op = "idle"
    /\ inflight[w].served < MaxRequests
    /\ req.op = "add_cooking_photo" => Cardinality(bucket) < MaxPhotos
    /\ req.op = "complete_cooking_session" =>
          <<req.args.rating, req.args.notes, req.args.would_make_again>> \in CompletionInputs
    /\ bucket' = IF req.op = "add_cooking_photo" THEN bucket \cup {NewPath} ELSE bucket
    /\ inflight' = [inflight EXCEPT ![w] =
          [op |-> req.op, served |-> inflight[w].served + 1,
           session_id |-> req.session_id,
           args |-> IF req.op = "add_cooking_photo"
                    THEN [photo_path |-> NewPath, step_number |-> req.args.step_number]
                    ELSE req.args,
           loaded |-> SelectById(sessions, req.session_id)]]
    /\ UNCHANGED <<recipes, sessions, now, accepted, last, pantry, nutrition, call>>

EndDecision(w, outcome) ==
    /\ inflight[w].op = "make_cooking_decision"
    /\ now <= MaxClock
    /\ LET q == inflight[w]
           r == make_cooking_decision(q.loaded, recipes, q.args.branch_point,
                                      q.args.choice, outcome, now)
       IN Finish(q.op, q.session_id,
                 [branch_point |-> q.args.branch_point, choice |-> q.args.choice,
                  outcome |-> outcome.label], q.loaded, r, DecisionTicks(r))
    /\ inflight' = [inflight EXCEPT ![w] = IdleAfter(inflight[w].served)]
    /\ UNCHANGED <<recipes, bucket, pantry, nutrition, call>>

EndVoiceQuestion(w, outcome) ==
    /\ inflight[w].op = "process_voice_question"
    /\ now <= MaxClock
    /\ LET q == inflight[w]
           r == process_voice_question(q.loaded, q.args.question, outcome, now)
       IN Finish(q.op, q.session_id, [question |-> q.args.question, outcome |-> outcome.kind],
                 q.loaded, r, VoiceTicks(r))
    /\ inflight' = [inflight EXCEPT ![w] = IdleAfter(inflight[w].served)]
    /\ UNCHANGED <<recipes, bucket, pantry, nutrition, call>>

EndPhoto(w) ==
    /\ inflight[w].op = "add_cooking_photo"
    /\ LET q == inflight[w]
           r == add_cooking_photo(q.loaded, q.args.photo_path)
       IN Finish(q.op, q.session_id, q.args, q.loaded, r, 0)
    /\ inflight' = [inflight EXCEPT ![w] = IdleAfter(inflight[w].served)]
    /\ UNCHANGED <<recipes, bucket, pantry, nutrition, call>>

EndStep(w) ==
    /\ inflight[w].op = "update_current_step"
    /\ LET q == inflight[w]
           r == update_current_step(q.loaded, q.args.step_number)
       IN Finish(q.op, q.session_id, q.args, q.loaded, r, 0)
    /\ inflight' = [inflight EXCEPT ![w] = IdleAfter(inflight[w].served)]
    /\ UNCHANGED <<recipes, bucket, pantry, nutrition, call>>

EndComplete(w, outcome) ==
    /\ inflight[w].op = "complete_cooking_session"
    /\ now <= MaxClock
    /\ LET q == inflight[w]
           r == complete_cooking_session(q.loaded, q.args.rating, q.args.notes,
                                         q.args.would_make_again, outcome, now)
       IN Finish(q.op, q.session_id,
                 [rating |-> q.args.rating, notes |-> q.args.notes,
                  would_make_again |-> q.args.would_make_again, outcome |-> outcome.kind],
                 q.loaded, r, CompleteTicks(r))
    /\ inflight' = [inflight EXCEPT ![w] = IdleAfter(inflight[w].served)]
    /\ UNCHANGED <<recipes, bucket, pantry, nutrition, call>>

ConcNext ==
    \/ \E u \in UserIds, rid \in RecipeIds, id \in FreshIds : StartCookingSession(u, rid, id)
    \/ \E w \in Workers, req \in Requests : BeginRequest(w, req)
    \/ \E w \in Workers, o \in RecomposeOutcomes : EndDecision(w, o)
    \/ \E w \in Workers, o \in VoiceOutcomes : EndVoiceQuestion(w, o)
    \/ \E w \in Workers : EndPhoto(w)
    \/ \E w \in Workers : EndStep(w)
    \/ \E w \in Workers, o \in StoryOutcomes : EndComplete(w, o)

ConcSpec == Init /\ [][ConcNext]_vars

----------------------------------------------------------------------------
(* The status "abandoned" is set by no handler of cooking_service.py; the  *)
(* specification reserves it for an external transition out of             *)
(* in_progress. ExtSpec adds that transition to the handlers.              *)

AbandonSession(session_id) ==
    /\ session_id \in DOMAIN sessions
    /\ sessions[session_id].status = "in_progress"
    /\ sessions' = [sessions EXCEPT ![session_id].status = "abandoned"]
    /\ last' = [op |-> "abandon", session_id |-> session_id, args |-> << >>,
                before |-> SelectById(sessions, session_id),
                overwritten |-> SelectById(sessions, session_id),
                error |-> "", adapter_called |-> FALSE]
    /\ UNCHANGED <<recipes, bucket, now, inflight, accepted, pantry, nutrition, call>>

ExtNext ==
    \/ Next
    \/ \E sid \in SessionIds : AbandonSession(sid)

ExtSpec == Init /\ [][ExtNext]_vars

----------------------------------------------------------------------------
(* RatingSpec: the handlers, with completions that carry a rating outside  *)
(* 1..5.                                                                   *)

RatingInputs == { Some(0), Some(6) }

RatingNext ==
    \/ Next
    \/ \E sid \in SessionIds, rating \in RatingInputs, o \in StoryOutcomes :
          CompleteCookingSession(sid, rating, None, None, o)

RatingSpec == Init /\ [][RatingNext]_vars

----------------------------------------------------------------------------
(* FormatSpec: the handlers, with the generation service also giving       *)
(* recompose answers that do not have the declared shape.                  *)

FormatNext ==
    \/ Next
    \/ \E sid \in SessionIds, bp \in BranchInputs, c \in ChoiceInputs, o \in MalformedOutcomes :
          MakeCookingDecision(sid, bp, c, o)

FormatSpec == Init /\ [][FormatNext]_vars

----------------------------------------------------------------------------
(* Python strings. A str is a TLA+ string; its characters are its          *)
(* substrings of length one.                                               *)

UpperCase == "ABCDEFGHIJKLMNOPQRSTUVWXYZ"
LowerCase == "abcdefghijklmnopqrstuvwxyz"

CharAt(s, i) == SubSeq(s, i, i)

UpperChars == {CharAt(UpperCase, i) : i \in 1..Len(UpperCase)}

\* an upper-case letter -> its lower-case letter
LowerOf ==
    [c \in UpperChars |->
        CharAt(LowerCase, CHOOSE i \in 1..Len(UpperCase) : CharAt(UpperCase, i) = c)]

\* str.lower() of one character
LowerChar(c) == IF c \in UpperChars THEN LowerOf[c] ELSE c

\* str.lower(), from the character at position i on
RECURSIVE LowerFrom(_, _)
LowerFrom(s, i) ==
    IF i > Len(s) THEN "" ELSE LowerChar(CharAt(s, i)) \o LowerFrom(s, i + 1)

\* str.lower()
Lower(s) == LowerFrom(s, 1)

\* the positions at which sub occurs in s
Occurrences(sub, s) ==
    {i \in 1..(Len(s) - Len(sub) + 1) : SubSeq(s, i, i + Len(sub) - 1) = sub}

\* sub in s
Contains(sub, s) == Len(sub) = 0 \/ Occurrences(sub, s) # {}

\* s.split(sep)[0]: the text before the first occurrence of sep
SplitHead(s, sep) ==
    IF Occurrences(sep, s) = {} THEN s
    ELSE LET first == CHOOSE i \in Occurrences(sep, s) : \A j \in Occurrences(sep, s) : i <= j
         IN  SubSeq(s, 1, first - 1)

\* str() of a float with an integral value, as an f-string prints it
FloatStr(x) == ToString(x) \o ".0"

----------------------------------------------------------------------------
(* pantry_service.py: add_pantry_item and remove_pantry_item *)

MaxPantry == 2        \* rows the table pantry_items holds at most

PantryIds == 1..MaxPantry

PantryInputs ==
    { [name |-> "Rice", category |-> "grains", quantity |-> 2, unit |-> "cups"],
      [name |-> "Cheese (parmesan)", category |-> "dairy", quantity |-> 1, unit |-> "wedge"] }

\* PantryItem(...); item.sync()
add_pantry_item(table, user_id, input, id) ==
    LET item == [ id |-> id, user_id |-> user_id, name |-> input.name,
                  category |-> input.category, quantity |-> input.quantity,
                  unit |-> input.unit ]
    IN  [table |-> Sync(table, item), ret |-> item, error |-> ""]

\* faulty variant of remove_pantry_item: an id of no row is an error, as in
\* update_pantry_item_quantity
remove_or_raise(table, item_id) ==
    IF item_id \in DOMAIN table
    THEN [table |-> [i \in DOMAIN table \ {item_id} |-> table[i]], ret |-> TRUE, error |-> ""]
    ELSE [table |-> table, ret |-> FALSE, error |-> "ValueError"]

\* DELETE FROM pantry_items WHERE id = item_id; return True
remove_pantry_item(table, item_id) ==
    [table |-> [i \in DOMAIN table \ {item_id} |-> table[i]], ret |-> TRUE, error |-> ""]

\* the session engine's state, which these calls leave alone
engine == <<sessions, bucket, now, inflight, accepted, last>>

AddPantryItem(user_id, input, id) ==
    /\ id \notin DOMAIN pantry
    /\ \A i \in PantryIds : i < id => i \in DOMAIN pantry
    /\ LET r == add_pantry_item(pantry, user_id, input, id)
       IN  /\ pantry' = r.table
           /\ call' = [op |-> "add_pantry_item", args |-> [name |-> input.name],
                       before |-> pantry, ret |-> r.ret.id]
    /\ UNCHANGED <<recipes, nutrition, engine>>

RemovePantryItem(item_id) ==
    /\ LET r == remove_pantry_item(pantry, item_id)
       IN  /\ pantry' = r.table
           /\ call' = [op |-> "remove_pantry_item", args |-> [item_id |-> item_id],
                       before |-> pantry, ret |-> [value |-> r.ret, error |-> r.error]]
    /\ UNCHANGED <<recipes, nutrition, engine>>

----------------------------------------------------------------------------
(* The nutrition registry as recipe_service.py and nutrition_service.py    *)
(* read it. Amounts are whole numbers; an Optional field is None or        *)
(* Some(v).                                                                *)

Truthy(opt) == opt # None /\ opt[1] # 0

RECURSIVE SumSeq(_)
SumSeq(xs) == IF xs = <<>> THEN 0 ELSE Head(xs) + SumSeq(Tail(xs))

Min(a, b) == IF a <= b THEN a ELSE b

\* SELECT * FROM nutrition_data WHERE LOWER(ingredient_name) = LOWER(name) LIMIT 1
get_nutrition_data(registry, ingredient_name) ==
    LET results == SelectSeq(registry,
                     LAMBDA r : Lower(r.ingredient_name) = Lower(ingredient_name))
    IN  IF results = <<>> THEN None ELSE Some(results[1])

\* faulty variant of Multiplier: the quantity is counted in whole pairs
MultiplierInPairs(ingredient) ==
    IF "quantity" \in DOMAIN ingredient THEN (ingredient.quantity + 1) \div 2 ELSE 1

\* ingredient.get("quantity", 1)
Multiplier(ingredient) ==
    IF "quantity" \in DOMAIN ingredient THEN ingredient.quantity ELSE 1

MacroFields == {"calories", "protein_g", "carbs_g", "fat_g", "fiber_g", "sugar_g", "sodium_mg"}
MicroFields == {"vitamin_c_mg", "vitamin_a_iu", "calcium_mg", "iron_mg", "potassium_mg"}

\* what one ingredient adds to the field f of total_nutrition
Contribution(registry, ingredient, f) ==
    LET nutrition_data == get_nutrition_data(registry, ingredient.name)
    IN  IF nutrition_data = None THEN 0
        ELSE IF f \in MacroFields THEN nutrition_data[1][f] * Multiplier(ingredient)
        ELSE IF Truthy(nutrition_data[1][f]) THEN nutrition_data[1][f][1] * Multiplier(ingredient)
        ELSE 0

\* nutrition_service.calculate_recipe_nutrition
calculate_recipe_nutrition(registry, ingredients) ==
    [f \in MacroFields \cup MicroFields |->
        SumSeq([i \in 1..Len(ingredients) |-> Contribution(registry, ingredients[i], f)])]

\* the key of base_nutrition -> the column it sums
BasicFields ==
    [calories |-> "calories", protein |-> "protein_g", carbs |-> "carbs_g", fat |-> "fat_g",
     fiber |-> "fiber_g", sugar |-> "sugar_g", sodium |-> "sodium_mg"]

BasicContribution(registry, ing, f) ==
    LET nutrition_data == get_nutrition_data(registry, ing.name)
    IN  IF nutrition_data = None THEN 0 ELSE nutrition_data[1][f] * ing.quantity

\* recipe_service.calculate_recipe_nutrition
recipe_nutrition(registry, ingredients) ==
    [k \in DOMAIN BasicFields |->
        SumSeq([i \in 1..Len(ingredients) |->
                    BasicContribution(registry, ingredients[i], BasicFields[k])])]

DefaultCost == 200    \* 2.0 per unit of quantity, in cents

IngredientCost(registry, ing) ==
    LET nutrition_data == get_nutrition_data(registry, ing.name)
    IN  IF nutrition_data # None /\ Truthy(nutrition_data[1].cost_per_serving)
        THEN nutrition_data[1].cost_per_serving[1] * ing.quantity
        ELSE DefaultCost * ing.quantity

\* recipe_service.calculate_recipe_cost
calculate_recipe_cost(registry, ingredients) ==
    SumSeq([i \in 1..Len(ingredients) |-> IngredientCost(registry, ingredients[i])])

----------------------------------------------------------------------------
(* recipe_service.py: create_base_recipe *)

MaxCreated == 2       \* recipes created on top of the catalog

RecipeDefs ==
    { [ name |-> "Salad", prep_time_minutes |-> 5, cook_time_minutes |-> 0,
        base_ingredients |-> << >>,
        base_steps |-> << [step |-> 1, instruction |-> "Toss", time_minutes |-> 5] >>,
        branch_points |-> << [step |-> 1, question |-> "Dressing?",
                              options |-> <<"oil", "oil">>] >>,
        dietary_tags |-> <<"vegan">> ],
      [ name |-> "Tea", prep_time_minutes |-> 1, cook_time_minutes |-> 3,
        base_ingredients |->
          << [name |-> "lemon", quantity |-> 1, unit |-> "slice", required |-> FALSE,
              category |-> "fruit"] >>,
        base_steps |-> << [step |-> 1, instruction |-> "Steep", time_minutes |-> 3] >>,
        branch_points |-> << [step |-> 5, question |-> "Sweeten?",
                              options |-> <<"honey", "plain">>] >>,
        dietary_tags |-> <<"vegan">> ],
      [ name |-> "Risotto", prep_time_minutes |-> 10, cook_time_minutes |-> 30,
        base_ingredients |->
          << [name |-> "rice", quantity |-> 2, unit |-> "cups", required |-> TRUE,
              category |-> "grains"],
             [name |-> "Cheese (parmesan)", quantity |-> 1, unit |-> "cup", required |-> TRUE],
             [name |-> "Saffron", quantity |-> 1, unit |-> "pinch"],
             [name |-> "salt", quantity |-> 1, unit |-> "tsp", required |-> FALSE] >>,
        base_steps |-> << [step |-> 1, instruction |-> "Toast the rice", time_minutes |-> 5],
                          [step |-> 2, instruction |-> "Add stock", time_minutes |-> 25] >>,
        branch_points |-> << [step |-> 2, question |-> "Finish?",
                              options |-> <<"butter", "cream">>] >>,
        dietary_tags |-> << >> ] }

\* ing.get("category", "other")
Category(ing) == IF "category" \in DOMAIN ing THEN ing.category ELSE "other"

\* BaseRecipe(...); recipe.sync(). created_at counts the recipes created
\* before: datetime.now() grows from one creation to the next.
create_base_recipe(table, registry, definition, id) ==
    LET recipe ==
          [ id |-> id,
            name |-> definition.name,
            prep_time_minutes |-> definition.prep_time_minutes,
            cook_time_minutes |-> definition.cook_time_minutes,
            base_ingredients |-> definition.base_ingredients,
            base_steps |-> definition.base_steps,
            branch_points |-> definition.branch_points,
            base_nutrition |-> recipe_nutrition(registry, definition.base_ingredients),
            base_cost_estimate |-> calculate_recipe_cost(registry, definition.base_ingredients),
            dietary_tags |-> definition.dietary_tags,
            ingredient_categories |->
                {Category(definition.base_ingredients[i]) :
                    i \in 1..Len(definition.base_ingredients)},
            created_by |-> "system",
            created_at |-> Cardinality(DOMAIN table) ]
    IN  [table |-> Sync(table, recipe), ret |-> recipe, error |-> ""]

CreateBaseRecipe(definition) ==
    /\ LET id == Cardinality(DOMAIN recipes) + 1
           r == create_base_recipe(recipes, nutrition, definition, id)
       IN  /\ recipes' = r.table
           /\ call' = [op |-> "create_base_recipe", args |-> [name |-> definition.name],
                       before |-> << >>, ret |-> [id |-> id, error |-> r.error]]
    /\ UNCHANGED <<pantry, nutrition, engine>>

----------------------------------------------------------------------------
(* recipe_service.py: get_recipe_recommendations. A match percentage is    *)
(* kept as the fraction num/den: two of the floats the code computes from  *)
(* counts this small are equal exactly when the fractions are.             *)

Window == 20          \* LIMIT 20 of the recipe query
TopN == 10            \* recommendations[:10]

Pct(num, den) == [num |-> num, den |-> den]
PctGeq(a, b) == a.num * b.den >= b.num * a.den
PctEq(a, b) == a.num * b.den = b.num * a.den

\* ing.get("required", True)
Required(ing) == IF "required" \in DOMAIN ing THEN ing.required ELSE TRUE

\* [item.split(" (")[0].lower() for item in pantry_items]
PantryNames(pantry_items) ==
    [i \in 1..Len(pantry_items) |-> Lower(SplitHead(pantry_items[i], " ("))]

\* any(ing_name in pantry_name for pantry_name in pantry_names)
InPantry(ing_name, pantry_names) ==
    \E i \in 1..Len(pantry_names) : Contains(ing_name, pantry_names[i])

calculate_ingredient_match(pantry_items, recipe_ingredients) ==
    IF recipe_ingredients = <<>> THEN Pct(0, 1)
    ELSE
    LET pantry_names == PantryNames(pantry_items)
        required == SelectSeq(recipe_ingredients, Required)
        required_ingredients == [i \in 1..Len(required) |-> Lower(required[i].name)]
    IN  IF required_ingredients = <<>> THEN Pct(100, 1)
        ELSE
        LET matched == Cardinality({i \in 1..Len(required_ingredients) :
                                        InPantry(required_ingredients[i], pantry_names)})
        IN  Pct(matched * 100, Len(required_ingredients))

get_missing_ingredients(pantry_items, recipe_ingredients) ==
    LET pantry_names == PantryNames(pantry_items)
        missing == SelectSeq(recipe_ingredients,
                     LAMBDA ing : Required(ing) /\ ~InPantry(Lower(ing.name), pantry_names))
    IN  [i \in 1..Len(missing) |-> missing[i].name]

\* the rows of ids, in the order of the ids
RECURSIVE RowsOf(_, _)
RowsOf(table, ids) ==
    IF ids = {} THEN <<>>
    ELSE LET m == CHOOSE i \in ids : \A j \in ids : i >= j
         IN  Append(RowsOf(table, ids \ {m}), table[m])

\* the rows of a table as a list
Rows(table) == RowsOf(table, DOMAIN table)

\* f"{item['name']} ({item['quantity']} {item['unit']})"
PantryLine(item) ==
    item.name \o " (" \o FloatStr(item.quantity) \o " " \o item.unit \o ")"

\* the rows of ids, ordered by created_at DESC
RECURSIVE RecentFirst(_, _)
RecentFirst(table, ids) ==
    IF ids = {} THEN <<>>
    ELSE LET m == CHOOSE i \in ids : \A j \in ids : table[i].created_at >= table[j].created_at
         IN  <<table[m]>> \o RecentFirst(table, ids \ {m})

\* SELECT * FROM base_recipes ORDER BY created_at DESC LIMIT 20
LoadRecipes(table) ==
    LET all == RecentFirst(table, DOMAIN table) IN SubSeq(all, 1, Min(Window, Len(all)))

\* faulty variant of Excluded: a recipe is kept only if it carries every
\* listed restriction
ExcludedUnlessAll(recipe, dietary_restrictions) ==
    /\ dietary_restrictions # <<>>
    /\ ~ \A i \in 1..Len(dietary_restrictions) :
            \E j \in 1..Len(recipe.dietary_tags) :
                dietary_restrictions[i] = recipe.dietary_tags[j]

\* if dietary_restrictions: if not any(tag in recipe.dietary_tags ...): continue
Excluded(recipe, dietary_restrictions) ==
    /\ dietary_restrictions # <<>>
    /\ ~ \E i \in 1..Len(dietary_restrictions), j \in 1..Len(recipe.dietary_tags) :
            dietary_restrictions[i] = recipe.dietary_tags[j]

\* one entry of the result; the recipe is named by its id
Recommendation(pantry_items, recipe) ==
    [ recipe |-> recipe.id,
      match_percentage |-> calculate_ingredient_match(pantry_items, recipe.base_ingredients),
      missing_ingredients |-> get_missing_ingredients(pantry_items, recipe.base_ingredients) ]

\* faulty variant of InsertByMatch: the entry goes before the entries of
\* the same percentage (an ascending sort, reversed)
RECURSIVE InsertBeforeEqual(_, _)
InsertBeforeEqual(sorted, e) ==
    IF sorted = <<>> THEN <<e>>
    ELSE IF PctGeq(e.match_percentage, Head(sorted).match_percentage)
         THEN <<e>> \o sorted
         ELSE <<Head(sorted)>> \o InsertBeforeEqual(Tail(sorted), e)

\* the place of e in a list sorted by descending match_percentage: after
\* every entry whose percentage is not smaller
RECURSIVE InsertByMatch(_, _)
InsertByMatch(sorted, e) ==
    IF sorted = <<>> THEN <<e>>
    ELSE IF PctGeq(Head(sorted).match_percentage, e.match_percentage)
         THEN <<Head(sorted)>> \o InsertByMatch(Tail(sorted), e)
         ELSE <<e>> \o sorted

\* recommendations.sort(key=lambda x: x["match_percentage"], reverse=True):
\* list.sort is stable, with reverse=True too
RECURSIVE SortByMatch(_, _)
SortByMatch(sorted, rest) ==
    IF rest = <<>> THEN sorted
    ELSE SortByMatch(InsertByMatch(sorted, Head(rest)), Tail(rest))

get_recipe_recommendations(pantry_table, recipe_table, user_id, dietary_restrictions) ==
    LET pantry_results == SelectSeq(Rows(pantry_table), LAMBDA item : item.user_id = user_id)
        pantry_items == [i \in 1..Len(pantry_results) |-> PantryLine(pantry_results[i])]
        loaded == SelectSeq(LoadRecipes(recipe_table),
                            LAMBDA recipe : ~Excluded(recipe, dietary_restrictions))
        recommendations == [i \in 1..Len(loaded) |-> Recommendation(pantry_items, loaded[i])]
        sorted == SortByMatch(<<>>, recommendations)
    IN  SubSeq(sorted, 1, Min(TopN, Len(sorted)))

RestrictionInputs == { << >>, <<"vegetarian">> }

GetRecipeRecommendations(user_id, dietary_restrictions) ==
    /\ call' = [op |-> "get_recipe_recommendations",
                args |-> [user_id |-> user_id, dietary_restrictions |-> dietary_restrictions],
                before |-> << >>,
                ret |-> get_recipe_recommendations(pantry, recipes, user_id,
                                                   dietary_restrictions)]
    /\ UNCHANGED <<pantry, recipes, nutrition, engine>>

----------------------------------------------------------------------------
(* KitchenSpec: a pantry and a catalog that grow, and the recommender      *)

Created == Cardinality(DOMAIN recipes) - Cardinality(DOMAIN Catalog)

KitchenNext ==
    \/ \E u \in UserIds, input \in PantryInputs, id \in PantryIds : AddPantryItem(u, input, id)
    \/ \E id \in PantryIds : RemovePantryItem(id)
    \/ \E d \in RecipeDefs : Created < MaxCreated /\ CreateBaseRecipe(d)
    \/ \E u \in UserIds, dr \in RestrictionInputs : GetRecipeRecommendations(u, dr)

KitchenSpec == Init /\ [][KitchenNext]_vars

----------------------------------------------------------------------------
(* RankSpec: a catalog of more recipes than the recommender returns, built *)
(* from two definitions that score differently against a pantry of pasta.  *)

MaxRanked == 10       \* recipes created on top of the catalog

RankDefs ==
    { [ name |-> "Buttered pasta", prep_time_minutes |-> 5, cook_time_minutes |-> 10,
        base_ingredients |->
          << [name |-> "Pasta", quantity |-> 8, unit |-> "oz", required |-> TRUE],
             [name |-> "butter", quantity |-> 1, unit |-> "tbsp", required |-> TRUE] >>,
        base_steps |-> << [step |-> 1, instruction |-> "Boil", time_minutes |-> 10] >>,
        branch_points |-> << >>,
        dietary_tags |-> <<"vegetarian">> ],
      [ name |-> "Toast", prep_time_minutes |-> 1, cook_time_minutes |-> 2,
        base_ingredients |->
          << [name |-> "bread", quantity |-> 2, unit |-> "slices", required |-> TRUE] >>,
        base_steps |-> << [step |-> 1, instruction |-> "Toast", time_minutes |-> 2] >>,
        branch_points |-> << >>,
        dietary_tags |-> <<"vegan">> ] }

RankPantryInputs ==
    { [name |-> "Pasta", category |-> "grains", quantity |-> 1, unit |-> "box"] }

RankNext ==
    \/ \E u \in UserIds, input \in RankPantryInputs : AddPantryItem(u, input, 1)
    \/ \E d \in RankDefs : Created < MaxRanked /\ CreateBaseRecipe(d)
    \/ \E u \in UserIds, dr \in RestrictionInputs : GetRecipeRecommendations(u, dr)

RankSpec == Init /\ [][RankNext]_vars

----------------------------------------------------------------------------
(* NutritionSpec: a registry that grows, aggregated over ingredient lists  *)

MaxNutrition == 2     \* rows the table nutrition_data holds at most

NutritionInputs ==
    { [ ingredient_name |-> "pasta", calories |-> 200, protein_g |-> 7, carbs_g |-> 42,
        fat_g |-> 1, fiber_g |-> 2, sugar_g |-> 2, sodium_mg |-> 0,
        vitamin_c_mg |-> None, vitamin_a_iu |-> None, calcium_mg |-> None,
        iron_mg |-> Some(2), potassium_mg |-> None, cost_per_serving |-> Some(50) ],
      [ ingredient_name |-> "Olive Oil", calories |-> 120, protein_g |-> 0, carbs_g |-> 0,
        fat_g |-> 14, fiber_g |-> 0, sugar_g |-> 0, sodium_mg |-> 0,
        vitamin_c_mg |-> Some(0), vitamin_a_iu |-> None, calcium_mg |-> None,
        iron_mg |-> None, potassium_mg |-> None, cost_per_serving |-> None ],
      [ ingredient_name |-> "Pasta", calories |-> 210, protein_g |-> 8, carbs_g |-> 40,
        fat_g |-> 2, fiber_g |-> 3, sugar_g |-> 1, sodium_mg |-> 5,
        vitamin_c_mg |-> None, vitamin_a_iu |-> None, calcium_mg |-> Some(10),
        iron_mg |-> Some(1), potassium_mg |-> None, cost_per_serving |-> Some(75) ],
      [ ingredient_name |-> "Salt", calories |-> 0, protein_g |-> 0, carbs_g |-> 0,
        fat_g |-> 0, fiber_g |-> 0, sugar_g |-> 0, sodium_mg |-> 2300,
        vitamin_c_mg |-> None, vitamin_a_iu |-> None, calcium_mg |-> None,
        iron_mg |-> None, potassium_mg |-> None, cost_per_serving |-> Some(0) ] }

IngredientLists ==
    { << >>,
      << [name |-> "Pasta", quantity |-> 3, unit |-> "oz"],
         [name |-> "olive oil", quantity |-> 1, unit |-> "tbsp"] >>,
      << [name |-> "pasta", quantity |-> 1, unit |-> "oz"],
         [name |-> "salt", quantity |-> 2, unit |-> "tsp"],
         [name |-> "PASTA", quantity |-> 2, unit |-> "oz"] >> }

\* NutritionData(...); nutrition.sync(): one more row, under a new id
add_nutrition_data(registry, input) == Append(registry, input)

AddNutritionData(input) ==
    /\ Len(nutrition) < MaxNutrition
    /\ nutrition' = add_nutrition_data(nutrition, input)
    /\ call' = [op |-> "add_nutrition_data", args |-> [name |-> input.ingredient_name],
                before |-> << >>, ret |-> << >>]
    /\ UNCHANGED <<pantry, recipes, engine>>

CalculateRecipeNutrition(ingredients) ==
    /\ call' = [op |-> "calculate_recipe_nutrition", args |-> [ingredients |-> ingredients],
                before |-> << >>, ret |-> calculate_recipe_nutrition(nutrition, ingredients)]
    /\ UNCHANGED <<pantry, recipes, nutrition, engine>>

NutritionRecipeDefs ==
    { [ name |-> "Aglio e olio", prep_time_minutes |-> 5, cook_time_minutes |-> 10,
        base_ingredients |-> ingredients,
        base_steps |-> << [step |-> 1, instruction |-> "Boil", time_minutes |-> 10] >>,
        branch_points |-> << >>,
        dietary_tags |-> <<"vegan">> ] :
      ingredients \in {l \in IngredientLists : Len(l) = 3} }

NutritionNext ==
    \/ \E input \in NutritionInputs : AddNutritionData(input)
    \/ \E ingredients \in IngredientLists : CalculateRecipeNutrition(ingredients)
    \/ \E d \in NutritionRecipeDefs : Created < MaxCreated /\ CreateBaseRecipe(d)

NutritionSpec == Init /\ [][NutritionNext]_vars

----------------------------------------------------------------------------
(* RegistrySpec: the registry under single adds, bulk imports, cost        *)
(* updates and lookups                                                     *)

\* the input with a given name
NutritionInput(name) == CHOOSE input \in NutritionInputs : input.ingredient_name = name

BulkLists ==
    { << NutritionInput("pasta"), NutritionInput("Pasta") >>,
      << NutritionInput("Olive Oil") >> }

LookupNames == {"PASTA", "salt"}
CostInputs == {60}

\* NutritionData.sync_many(nutrition_objects): one more row for each entry
bulk_import_nutrition_data(registry, nutrition_list) == registry \o nutrition_list

\* the place of the row the LIMIT 1 lookup returns, 0 when there is none
FirstMatch(registry, ingredient_name) ==
    IF get_nutrition_data(registry, ingredient_name) = None THEN 0
    ELSE CHOOSE i \in 1..Len(registry) :
            /\ Lower(registry[i].ingredient_name) = Lower(ingredient_name)
            /\ \A j \in 1..(i - 1) :
                  Lower(registry[j].ingredient_name) # Lower(ingredient_name)

\* the row found is written back with the new cost; no row, no write
update_nutrition_cost(registry, ingredient_name, cost_per_serving) ==
    LET i == FirstMatch(registry, ingredient_name)
    IN  IF i = 0 THEN registry
        ELSE [registry EXCEPT ![i].cost_per_serving = Some(cost_per_serving)]

BulkImportNutritionData(nutrition_list) ==
    /\ Len(nutrition) + Len(nutrition_list) <= MaxNutrition
    /\ nutrition' = bulk_import_nutrition_data(nutrition, nutrition_list)
    /\ call' = [op |-> "bulk_import_nutrition_data",
                args |-> [name |-> nutrition_list[Len(nutrition_list)].ingredient_name],
                before |-> << >>, ret |-> << >>]
    /\ UNCHANGED <<pantry, recipes, engine>>

UpdateNutritionCost(ingredient_name, cost_per_serving) ==
    /\ nutrition' = update_nutrition_cost(nutrition, ingredient_name, cost_per_serving)
    /\ call' = [op |-> "update_nutrition_cost", args |-> [name |-> ingredient_name],
                before |-> << >>,
                ret |-> get_nutrition_data(nutrition', ingredient_name)]
    /\ UNCHANGED <<pantry, recipes, engine>>

GetNutritionData(ingredient_name) ==
    /\ call' = [op |-> "get_nutrition_data", args |-> [name |-> ingredient_name],
                before |-> << >>, ret |-> get_nutrition_data(nutrition, ingredient_name)]
    /\ UNCHANGED <<pantry, recipes, nutrition, engine>>

RegistryNext ==
    \/ \E input \in NutritionInputs : AddNutritionData(input)
    \/ \E nutrition_list \in BulkLists : BulkImportNutritionData(nutrition_list)
    \/ \E name \in LookupNames, cost \in CostInputs : UpdateNutritionCost(name, cost)
    \/ \E name \in LookupNames : GetNutritionData(name)

RegistrySpec == Init /\ [][RegistryNext]_vars

----------------------------------------------------------------------------
(* DietSpec: the recommender asked with lists of dietary restrictions      *)

DietRestrictionInputs == { << >>, <<"vegetarian", "vegan">>, <<"gluten-free">> }

DietNext ==
    \/ \E u \in UserIds, input \in PantryInputs, id \in PantryIds : AddPantryItem(u, input, id)
    \/ \E d \in RecipeDefs : Created < MaxCreated /\ CreateBaseRecipe(d)
    \/ \E u \in UserIds, dr \in DietRestrictionInputs : GetRecipeRecommendations(u, dr)

DietSpec == Init /\ [][DietNext]_vars

----------------------------------------------------------------------------
(* Properties of the session engine *)

RowOf(session_id) == sessions[session_id]

DerivedState(session) ==
    <<session.final_ingredients, session.final_steps, session.final_nutrition,
      session.final_cost, session.total_time_minutes>>

\* the (branch point, choice) pairs of a decision log, in order
Choices(decisions) ==
    [i \in DOMAIN decisions |-> <<decisions[i].branch_point, decisions[i].choice>>]

\* the accepted decisions of one session, in the order they were accepted
AcceptedFor(session_id) ==
    LET mine == SelectSeq(accepted, LAMBDA a : a.session_id = session_id)
    IN  [i \in DOMAIN mine |-> <<mine[i].branch_point, mine[i].choice>>]

LastIs(op) == last.op = op
LastFound == last.before # << >>

\* C1: when the recompose call inside recordDecision fails, the persisted
\* session's decision log and derived state are what they were before the
\* call: neither the new entry nor a part of the replacement is stored.
C1_FailedRecomposeLeavesSessionUnchanged ==
    (LastIs("make_cooking_decision") /\ last.error = "AdapterError") =>
        /\ last.session_id \in DOMAIN sessions
        /\ RowOf(last.session_id).decisions_made = last.before[1].decisions_made
        /\ DerivedState(RowOf(last.session_id)) = DerivedState(last.before[1])

\* a recompose failure on a session that already holds a decision
C1_Witness ==
    /\ LastIs("make_cooking_decision")
    /\ last.error = "AdapterError"
    /\ Len(last.before[1].decisions_made) >= 1

\* C2: after N successful recordDecision calls made one after another on a
\* session, decisions_made has N entries and the i-th carries the branch
\* step and choice of the i-th call.
C2_DecisionsInSubmissionOrder ==
    \A sid \in DOMAIN sessions :
        Choices(RowOf(sid).decisions_made) = AcceptedFor(sid)

\* two accepted decisions that differ
C2_Witness ==
    \E sid \in DOMAIN sessions :
        /\ Len(AcceptedFor(sid)) >= 2
        /\ AcceptedFor(sid)[1] # AcceptedFor(sid)[2]

\* C3: two recordDecision calls that run at once on one session are
\* serialized: once a call has returned normally, the persisted log holds
\* every accepted decision of the session, each once.
C3_ConcurrentDecisionsBothKept ==
    (LastIs("make_cooking_decision") /\ last.error = "") =>
        LET log == Choices(RowOf(last.session_id).decisions_made)
            acc == AcceptedFor(last.session_id)
        IN  /\ Len(log) = Len(acc)
            /\ \A i \in DOMAIN acc : \E j \in DOMAIN log : log[j] = acc[i]

\* C4: completeSession on a session that is already completed is rejected
\* with a Conflict error and leaves the persisted session as it was.
C4_CompletingCompletedIsRejected ==
    (LastIs("complete_cooking_session") /\ LastFound
        /\ last.before[1].status = "completed") =>
        /\ last.error = "Conflict"
        /\ RowOf(last.session_id) = last.before[1]

\* C5: completed and abandoned are terminal: a session operation on a
\* session whose persisted status is one of them leaves the status as it is.
C5_TerminalStatusIsKept ==
    (LastFound /\ last.before[1].status \in {"completed", "abandoned"}) =>
        RowOf(last.session_id).status = last.before[1].status

\* C6: startSession on an existing recipe R persists an in_progress session
\* at step 1 with empty decision, photo and voice logs, total time
\* R.prep + R.cook, and a derived state equal to R's base fields.
C6_StartSeedsSessionFromRecipe ==
    (LastIs("start_cooking_session") /\ last.error = "") =>
        /\ last.session_id \in DOMAIN sessions
        /\ LET s == RowOf(last.session_id)
               R == recipes[last.args.base_recipe_id]
           IN  /\ s.status = "in_progress"
               /\ s.current_step = 1
               /\ s.decisions_made = << >>
               /\ s.session_photos = << >>
               /\ s.voice_interactions = << >>
               /\ s.total_time_minutes = R.prep_time_minutes + R.cook_time_minutes
               /\ s.final_ingredients = R.base_ingredients
               /\ s.final_steps = R.base_steps
               /\ s.final_nutrition = R.base_nutrition
               /\ s.final_cost = R.base_cost_estimate
               /\ s.base_recipe_id = last.args.base_recipe_id
               /\ s.user_id = last.args.user_id

C6_Witness ==
    /\ LastIs("start_cooking_session")
    /\ last.error = ""
    /\ last.session_id \in DOMAIN sessions

\* C7: no session operation changes a base recipe: the table of recipes is
\* the catalog the run began with.
C7_SessionsLeaveRecipesAlone == recipes = Catalog

\* a session whose derived state has left the recipe's base state behind
\* and that has been completed
C7_Witness ==
    \E sid \in DOMAIN sessions :
        /\ RowOf(sid).status = "completed"
        /\ RowOf(sid).final_ingredients # recipes[RowOf(sid).base_recipe_id].base_ingredients

IsPrefix(a, b) == Len(a) <= Len(b) /\ SubSeq(b, 1, Len(a)) = a

\* C8: decisions_made is append-only: over every operation the old log is
\* a prefix of the new one, and the log grows, by exactly one entry, when
\* and only when the operation is a recordDecision that returns normally.
C8_DecisionLogAppendOnly ==
    [][\A sid \in DOMAIN sessions :
          LET old == sessions[sid].decisions_made
              new == sessions'[sid].decisions_made
              decided == /\ last'.op = "make_cooking_decision"
                         /\ last'.error = ""
                         /\ last'.session_id = sid
          IN  /\ IsPrefix(old, new)
              /\ new # old => decided
              /\ decided => Len(new) = Len(old) + 1]_vars

\* a log of two decisions that an operation other than recordDecision has
\* just passed over
C8_Witness ==
    /\ LastIs("update_current_step")
    /\ last.error = ""
    /\ Len(RowOf(last.session_id).decisions_made) >= 2

HasBranchAt(recipe, step) ==
    \E i \in DOMAIN recipe.branch_points : recipe.branch_points[i].step = step

\* C9: recordDecision for a step that is the step of no branch point of the
\* session's recipe fails with the branch-not-found error before the
\* generation service is called, and the persisted session is unchanged.
C9_UnknownBranchRejectedUntouched ==
    (LastIs("make_cooking_decision") /\ LastFound
        /\ ~HasBranchAt(recipes[last.before[1].base_recipe_id], last.args.branch_point)) =>
        /\ last.error = "BranchNotFound"
        /\ ~last.adapter_called
        /\ RowOf(last.session_id) = last.before[1]

C9_Witness ==
    /\ LastIs("make_cooking_decision")
    /\ LastFound
    /\ last.args.branch_point = 9
    /\ Recomposed(last.args.outcome).kind = "ok"
    /\ last.error = "BranchNotFound"

\* C10: after a successful recordDecision the five derived fields are
\* exactly the values of the adapter's response.
C10_DerivedStateReplacedByResponse ==
    (LastIs("make_cooking_decision") /\ last.error = "") =>
        LET s == RowOf(last.session_id)
            o == Recomposed(last.args.outcome)
        IN  /\ s.final_ingredients = o.ingredients
            /\ s.final_steps = o.steps
            /\ s.final_nutrition = o.nutrition
            /\ s.final_cost = o.cost
            /\ s.total_time_minutes = o.total_time

\* a second decision answered with a response other than the first one's
C10_Witness ==
    /\ LastIs("make_cooking_decision")
    /\ last.error = ""
    /\ Len(last.before[1].decisions_made) >= 1
    /\ last.before[1].final_ingredients # Recomposed(last.args.outcome).ingredients

\* C11: a recompose answer that lacks a declared field or has a field of
\* the wrong type is rejected with a DownstreamFormatError and leaves the
\* persisted session as it was.
C11_MalformedResponseRejected ==
    (LastIs("make_cooking_decision") /\ LastFound
        /\ HasBranchAt(recipes[last.before[1].base_recipe_id], last.args.branch_point)
        /\ last.args.outcome \in {o.label : o \in MalformedOutcomes}) =>
        /\ last.error = "DownstreamFormatError"
        /\ RowOf(last.session_id) = last.before[1]

\* C12: when the story call fails during completeSession on an in_progress
\* session, the completion is persisted all the same: status completed,
\* completed_at set, and the rating, notes and would_make_again supplied.
C12_CompletionSurvivesStoryFailure ==
    (LastIs("complete_cooking_session") /\ LastFound
        /\ last.before[1].status = "in_progress"
        /\ last.args.outcome = "error") =>
        LET s == RowOf(last.session_id)
        IN  /\ s.status = "completed"
            /\ s.completed_at # None
            /\ s.rating = last.args.rating
            /\ s.notes = last.args.notes
            /\ s.would_make_again = last.args.would_make_again

C12_Witness ==
    /\ LastIs("complete_cooking_session")
    /\ LastFound
    /\ last.before[1].status = "in_progress"
    /\ last.args.outcome = "error"
    /\ last.error = "AdapterError"
    /\ last.args.rating = Some(5)

\* C13: when the generation service fails during an advisory operation
\* (the question of recordVoiceQuestion, the story of completeSession), the
\* operation returns a fallback result and not an error.
C13_AdvisoryFailureDegrades ==
    (last.op \in {"process_voice_question", "complete_cooking_session"}
        /\ LastFound /\ last.args.outcome = "error") =>
        last.error = ""

\* C20: startSession with the id of no recipe fails with the
\* recipe-not-found error and creates no session row.
C20_StartUnknownRecipeCreatesNothing ==
    (LastIs("start_cooking_session") /\ last.args.base_recipe_id \notin DOMAIN recipes) =>
        /\ last.error = "RecipeNotFound"
        /\ last.session_id \notin DOMAIN sessions

C20_Witness ==
    /\ LastIs("start_cooking_session")
    /\ last.args.base_recipe_id \notin DOMAIN recipes
    /\ last.error = "RecipeNotFound"

----------------------------------------------------------------------------
(* Properties of the recommender, the pantry and the catalog *)

CallIs(op) == call.op = op

\* the required ingredients of a recipe, in recipe order
RequiredOf(recipe) == SelectSeq(recipe.base_ingredients, Required)

\* the matching rule of the specification: the lower-cased ingredient name
\* is a substring of the lower-cased name of some pantry item of the user
NameInPantry(name, user_id) ==
    \E id \in DOMAIN pantry :
        /\ pantry[id].user_id = user_id
        /\ Contains(Lower(name), Lower(pantry[id].name))

\* C14: recommend reports 100 for a recipe with no required ingredient (an
\* empty ingredient list, or optional ingredients only) and 0 for a recipe
\* with required ingredients none of which is a substring of a pantry name.
C14_MatchAtTheExtremes ==
    CallIs("get_recipe_recommendations") =>
        \A i \in 1..Len(call.ret) :
            LET req == RequiredOf(recipes[call.ret[i].recipe])
                pct == call.ret[i].match_percentage
            IN  /\ req = <<>> => PctEq(pct, Pct(100, 1))
                /\ (req # <<>> /\ \A k \in 1..Len(req) :
                                     ~NameInPantry(req[k].name, call.args.user_id))
                      => PctEq(pct, Pct(0, 1))

\* C15: for a recipe with R > 0 required ingredients recommend reports
\* 100 * M / R, M counting the required ingredients whose lower-cased name
\* is a substring of some pantry item's lower-cased name, and
\* missing_ingredients is the other required ingredients, in recipe order.
C15_MatchIsTheMatchedShare ==
    CallIs("get_recipe_recommendations") =>
        \A i \in 1..Len(call.ret) :
            LET req == RequiredOf(recipes[call.ret[i].recipe])
                unmatched == SelectSeq(req,
                               LAMBDA ing : ~NameInPantry(ing.name, call.args.user_id))
                M == Len(req) - Len(unmatched)
            IN  req # <<>> =>
                  /\ PctEq(call.ret[i].match_percentage, Pct(100 * M, Len(req)))
                  /\ call.ret[i].missing_ingredients =
                        [k \in 1..Len(unmatched) |-> unmatched[k].name]
                  /\ Len(call.ret[i].missing_ingredients) = Len(req) - M

\* C18: deleting a pantry id that does not exist returns success and leaves
\* the pantry as it was; deleting the same id again gives the same result
\* and the same pantry.
C18_RemoveIsIdempotent ==
    CallIs("remove_pantry_item") =>
        /\ call.ret = [value |-> TRUE, error |-> ""]
        /\ call.args.item_id \notin DOMAIN call.before => pantry = call.before
        /\ LET again == remove_pantry_item(pantry, call.args.item_id)
           IN  /\ again.table = pantry
               /\ [value |-> again.ret, error |-> again.error] = call.ret

C18_Witness ==
    /\ CallIs("remove_pantry_item")
    /\ call.before # << >>
    /\ call.args.item_id \notin DOMAIN call.before
    /\ pantry = call.before

\* the branch-point invariant: every branch point names a step of
\* base_steps, and its choice keys are pairwise distinct
BranchPointsValid(recipe) ==
    \A i \in 1..Len(recipe.branch_points) :
        LET bp == recipe.branch_points[i]
        IN  /\ \E k \in 1..Len(recipe.base_steps) : recipe.base_steps[k].step = bp.step
            /\ \A a, b \in 1..Len(bp.options) : bp.options[a] = bp.options[b] => a = b

\* C19: createBaseRecipe persists a recipe only if every branch point names
\* a step of base_steps and has pairwise distinct choice keys; so every
\* persisted recipe satisfies the branch-point invariant.
C19_PersistedRecipesAreValid ==
    \A id \in DOMAIN recipes : BranchPointsValid(recipes[id])

\* the recipes recommend loaded and did not exclude, in the order loaded
Kept == SelectSeq(LoadRecipes(recipes),
                  LAMBDA recipe : ~Excluded(recipe, call.args.dietary_restrictions))

\* the scores of those recipes against the pantry of the caller
KeptScores ==
    LET kept == Kept
        items == Rows(pantry)
        pantry_items == [i \in 1..Len(items) |-> PantryLine(items[i])]
    IN  [k \in 1..Len(kept) |->
            [ recipe |-> kept[k].id,
              score |-> calculate_ingredient_match(pantry_items, kept[k].base_ingredients) ]]

\* C16: recommend returns at most 10 entries in order of non-increasing
\* match_percentage; they are the 10 best of the loaded recipes that are
\* not excluded, and entries of equal percentage keep the order in which
\* their recipes were loaded.
C16_TopTenStableDescending ==
    CallIs("get_recipe_recommendations") =>
        LET ret == call.ret
            kept == KeptScores
            \* the place in the loaded window of the i-th entry returned
            at == [i \in 1..Len(ret) |->
                     CHOOSE k \in 0..Len(kept) :
                        IF \E n \in 1..Len(kept) : kept[n].recipe = ret[i].recipe
                        THEN k > 0 /\ kept[k].recipe = ret[i].recipe
                        ELSE k = 0]
            returned == {at[i] : i \in 1..Len(ret)}
        IN  /\ Len(ret) = Min(TopN, Len(kept))
            /\ 0 \notin returned
            /\ \A i, j \in 1..Len(ret) :
                  i < j =>
                    /\ PctGeq(ret[i].match_percentage, ret[j].match_percentage)
                    /\ PctEq(ret[i].match_percentage, ret[j].match_percentage)
                          => at[i] < at[j]
            /\ \A k \in (1..Len(kept)) \ returned :
                  \A i \in 1..Len(ret) :
                      /\ PctGeq(ret[i].match_percentage, kept[k].score)
                      /\ PctEq(ret[i].match_percentage, kept[k].score) => at[i] < k

C16_Witness ==
    /\ CallIs("get_recipe_recommendations")
    /\ Len(KeptScores) > TopN
    /\ Len(call.ret) = TopN
    /\ ~PctEq(call.ret[1].match_percentage, call.ret[TopN].match_percentage)
    /\ PctEq(call.ret[2].match_percentage, call.ret[3].match_percentage)
    /\ \E k \in 1..Len(KeptScores) :
          /\ \A i \in 1..Len(call.ret) : call.ret[i].recipe # KeptScores[k].recipe
          /\ PctEq(KeptScores[k].score, call.ret[TopN].match_percentage)

\* the same ingredient list with every quantity doubled
Doubled(ingredients) ==
    [i \in 1..Len(ingredients) |-> [ingredients[i] EXCEPT !.quantity = 2 * @]]

\* C17: aggregate is linear in the quantities: the list with every quantity
\* doubled gives twice the total, in every macro and micro field, both in
\* the registry's aggregate and in the one create_base_recipe uses.
C17_AggregateDoublesWithQuantities ==
    /\ CallIs("calculate_recipe_nutrition") =>
          LET twice == calculate_recipe_nutrition(nutrition, Doubled(call.args.ingredients))
          IN  \A f \in MacroFields \cup MicroFields : twice[f] = 2 * call.ret[f]
    /\ CallIs("create_base_recipe") =>
          LET recipe == recipes[call.ret.id]
              twice == recipe_nutrition(nutrition, Doubled(recipe.base_ingredients))
          IN  \A k \in DOMAIN BasicFields : twice[k] = 2 * recipe.base_nutrition[k]

C17_Witness ==
    /\ CallIs("calculate_recipe_nutrition")
    /\ Len(call.args.ingredients) = 3
    /\ Len(nutrition) = 2
    /\ call.ret.calories > 0
    /\ call.ret.iron_mg > 0
    /\ call.ret.calcium_mg > 0

----------------------------------------------------------------------------
(* Further properties of the session engine *)

\* C21: in every persisted session the rating is absent or an integer
\* from 1 to 5.
C21_RatingInRange ==
    \A sid \in DOMAIN sessions :
        sessions[sid].rating = None \/ sessions[sid].rating[1] \in 1..5

\* what the call that finished last returned, when it was a decision
LastDecisionResult ==
    make_cooking_decision(last.before, recipes, last.args.branch_point, last.args.choice,
                          Recomposed(last.args.outcome), now)

\* C23: a successful recordDecision returns as remaining branch points the
\* recipe's branch points whose step is at least current_step + 1, in
\* recipe order, and none at or before current_step.
C23_RemainingBranchPoints ==
    (LastIs("make_cooking_decision") /\ LastFound /\ last.error = "") =>
        LET recipe == recipes[last.before[1].base_recipe_id]
            current_step == RowOf(last.session_id).current_step
            ret == LastDecisionResult.ret[1].next_branch_points
        IN  /\ ret = SelectSeq(recipe.branch_points, LAMBDA bp : bp.step >= current_step + 1)
            /\ \A i \in 1..Len(ret) : ret[i].step > current_step

C23_Witness ==
    /\ LastIs("make_cooking_decision")
    /\ LastFound
    /\ last.error = ""
    /\ RowOf(last.session_id).current_step = 3
    /\ Len(LastDecisionResult.ret[1].next_branch_points) = 1

\* C24: recordVoiceQuestion appends one entry (timestamp, question, answer)
\* at the end of voice_interactions and changes nothing else of the
\* persisted session, also when the answer flags creates_branch.
C24_VoiceQuestionOnlyAppends ==
    (LastIs("process_voice_question") /\ LastFound /\ last.error = "") =>
        LET old == last.before[1]
            new == RowOf(last.session_id)
            n == Len(new.voice_interactions)
        IN  /\ n = Len(old.voice_interactions) + 1
            /\ SubSeq(new.voice_interactions, 1, n - 1) = old.voice_interactions
            /\ DOMAIN new.voice_interactions[n] = {"timestamp", "question", "response"}
            /\ new.voice_interactions[n].question = last.args.question
            /\ \E o \in VoiceOutcomes :
                  o.kind = "ok" /\ new.voice_interactions[n].response = o.answer
            /\ [new EXCEPT !.voice_interactions = old.voice_interactions] = old

C24_Witness ==
    /\ LastIs("process_voice_question")
    /\ LastFound
    /\ last.error = ""
    /\ last.before[1].decisions_made # << >>
    /\ \E o \in VoiceOutcomes : o.kind = "ok" /\ o.creates_branch

\* C26: recordDecision does not check the choice against the options of
\* the branch point: for an existing branch point and any choice the call
\* goes on to the recomposition, and when that succeeds the choice is the
\* last entry of decisions_made.
C26_ChoiceIsNotValidated ==
    (LastIs("make_cooking_decision") /\ LastFound
        /\ HasBranchAt(recipes[last.before[1].base_recipe_id], last.args.branch_point)) =>
        /\ last.adapter_called
        /\ Recomposed(last.args.outcome).kind = "ok" =>
              LET log == RowOf(last.session_id).decisions_made
              IN  /\ last.error = ""
                  /\ Len(log) = Len(last.before[1].decisions_made) + 1
                  /\ log[Len(log)].branch_point = last.args.branch_point
                  /\ log[Len(log)].choice = last.args.choice

C26_Witness ==
    /\ LastIs("make_cooking_decision")
    /\ LastFound
    /\ last.error = ""
    /\ last.args.choice = "tofu"
    /\ RowOf(last.session_id).decisions_made[Len(RowOf(last.session_id).decisions_made)].choice
          = "tofu"

\* the fields complete_cooking_session sets
Completion(session) ==
    <<session.status, session.completed_at, session.rating, session.notes,
      session.would_make_again>>

\* C27: two different operations on one session that overlap lose no
\* update: the row a persist replaces keeps its photos, its voice entries,
\* its step and its completion, each unless it is what the persisting
\* operation itself writes.
C27_PersistKeepsOtherUpdates ==
    (last.overwritten # << >> /\ last.session_id \in DOMAIN sessions) =>
        LET old == last.overwritten[1]
            new == RowOf(last.session_id)
        IN  /\ ~LastIs("add_cooking_photo") => new.session_photos = old.session_photos
            /\ ~LastIs("process_voice_question") =>
                  new.voice_interactions = old.voice_interactions
            /\ ~LastIs("update_current_step") => new.current_step = old.current_step
            /\ ~LastIs("complete_cooking_session") => Completion(new) = Completion(old)

\* C28: once a session is completed, no recordDecision changes its
\* persisted decisions_made or derived state.
C28_CompletedSessionTakesNoDecision ==
    (LastIs("make_cooking_decision") /\ LastFound /\ last.before[1].status = "completed") =>
        /\ RowOf(last.session_id).decisions_made = last.before[1].decisions_made
        /\ DerivedState(RowOf(last.session_id)) = DerivedState(last.before[1])

\* C29: attachPhoto for a session id of no session fails with the
\* session-not-found error and stores nothing, so every stored photo is in
\* the session_photos of some session.
C29_NoOrphanPhoto ==
    /\ (LastIs("add_cooking_photo") /\ ~LastFound) => last.error = "SessionNotFound"
    /\ \A path \in bucket :
          \E sid \in DOMAIN sessions :
              \E i \in 1..Len(sessions[sid].session_photos) :
                  sessions[sid].session_photos[i] = path

----------------------------------------------------------------------------
(* Further properties of the catalog, the registry and the recommender *)

\* the registry entry the claims speak of: a stored row with the name,
\* compared without regard to case
HasEntry(name) ==
    \E i \in 1..Len(nutrition) : Lower(nutrition[i].ingredient_name) = Lower(name)

\* the cost the registry gives for a name that has an entry; an entry
\* without a cost is charged like a name without an entry
RegistryCost(name) ==
    LET entry == get_nutrition_data(nutrition, name)[1]
    IN  IF entry.cost_per_serving = None THEN DefaultCost ELSE entry.cost_per_serving[1]

\* C22: createBaseRecipe sets base_cost_estimate to the sum over the
\* ingredients of quantity times the registry cost where the ingredient
\* has a registry entry and quantity times the default 2.0 where it has
\* none; an ingredient with no entry adds nothing to base_nutrition.
C22_CostAndNutritionOfNewRecipe ==
    CallIs("create_base_recipe") =>
        LET recipe == recipes[call.ret.id]
            ings == recipe.base_ingredients
            known == SelectSeq(ings, LAMBDA ing : HasEntry(ing.name))
        IN  /\ recipe.base_cost_estimate =
                  SumSeq([i \in 1..Len(ings) |->
                            IF HasEntry(ings[i].name)
                            THEN ings[i].quantity * RegistryCost(ings[i].name)
                            ELSE ings[i].quantity * DefaultCost])
            /\ recipe.base_nutrition = recipe_nutrition(nutrition, known)

\* C25: the registry holds at most one record for each name, compared
\* without regard to case; a later write for a name replaces the earlier
\* record, and get returns that record for every casing of the name.
C25_OneRecordPerName ==
    /\ \A i, j \in 1..Len(nutrition) :
          Lower(nutrition[i].ingredient_name) = Lower(nutrition[j].ingredient_name) => i = j
    /\ CallIs("add_nutrition_data") =>
          \A name \in LookupNames :
              Lower(name) = Lower(call.args.name) =>
                  get_nutrition_data(nutrition, name) = Some(NutritionInput(call.args.name))

\* C30: with a non-empty list of dietary restrictions a recipe is in the
\* result only if one of the listed restrictions is among its
\* dietary_tags, and it need not carry them all; with no list, or an
\* empty one, no recipe is left out.
C30_DietaryFilterIsAnyOf ==
    CallIs("get_recipe_recommendations") =>
        LET dr == call.args.dietary_restrictions
            returned == {call.ret[i].recipe : i \in 1..Len(call.ret)}
            allowed == {id \in DOMAIN recipes :
                          \/ dr = << >>
                          \/ \E i \in 1..Len(dr), j \in 1..Len(recipes[id].dietary_tags) :
                                dr[i] = recipes[id].dietary_tags[j]}
        IN  /\ returned \subseteq allowed
            /\ Cardinality(DOMAIN recipes) <= TopN => returned = allowed

C30_Witness ==
    /\ CallIs("get_recipe_recommendations")
    /\ Len(call.args.dietary_restrictions) = 2
    /\ \E i \in 1..Len(call.ret) : recipes[call.ret[i].recipe].dietary_tags = <<"vegetarian">>
    /\ \E id \in DOMAIN recipes : \A i \in 1..Len(call.ret) : call.ret[i].recipe # id

====
